---- MODULE Spec2Model ----
(***************************************************************************)
(* Model of the xfbank plugin (src/main.py): the in-memory ledger          *)
(* (BankData), the command handlers BankPlugin.xfbank / BankPlugin.bank    *)
(* and the background auto-save thread.                                    *)
(*                                                                         *)
(* Scheduling.  The handlers are `async def` generators that contain no    *)
(* await: they run on the one event-loop thread, one at a time, and a      *)
(* handler gives the loop back only when it yields its result.  The        *)
(* auto-save thread (start_auto_save) is a real thread: its steps          *)
(* interleave with every step of the running handler.  LOCK is a           *)
(* threading.Lock, so acquiring it blocks the acquiring thread.            *)
(* The saver never writes the in-memory ledger, so a handler's reads       *)
(* commute with the saver's steps: every handler step below is a run of    *)
(* reads ending in one write to the ledger, to the lock or to the file.    *)
(*                                                                         *)
(* Strings.  Transaction type tags are written in ASCII:                   *)
(*   "kaihu" = 开户, "changepwd" = 修改密码, "deposit" = 存款,             *)
(*   "withdraw" = 取款, "transfer_out" = 转账支出,                         *)
(*   "transfer_in" = 转账收入, "external_<bank>" = 跨行转账至<bank>.       *)
(* A user id is the sequence of its decimal digits; a card number is       *)
(* <<"XF", d1..d6, check>>.                                                *)
(***************************************************************************)
EXTENDS Integers, Sequences, FiniteSets, TLC

VARIABLES accounts, cards, passwords, transactions, lock, cur, saver, file

vars == <<accounts, cards, passwords, transactions, lock, cur, saver, file>>

(***************************************************************************)
(* Bounds of the model and constants of the program                        *)
(***************************************************************************)
MaxBalance == 1
MaxRecords == 5
MaxRecords3 == 6
HistMaxBalance == 103
MaxRecordsIO == 5
MaxRecordsLive == 5

HistoryCap == 100
WithdrawLimit == 50000
TransferLimit == 50000
DepositLimit == 100000
RecordLimit == 20
RecordDefault == 10
MinPasswordLen == 6
CardSuffixLen == 6

(***************************************************************************)
(* Inputs                                                                  *)
(***************************************************************************)
U1 == <<1>>
U2 == <<2>>
U3 == <<9, 0, 0, 0, 0, 0, 1>>
Users == {U1, U2, U3}
TwoUsers == {U1, U2}
(* the users who send changepwd in Spec *)
PwChangers == {U1}
NoUser == <<>>

(* password tokens: kaihu sets OpenPwTokens, changepwd sets NewPwTokens,
   every command that verifies a password is tried with each of PwTokens *)
PwTokens == {"abcdef", "ghijkl", "abc"}
OpenPwTokens == {"abcdef", "abc"}
NewPwTokens == {"ghijkl", "abc"}
(* amount tokens; deposits are tried with DepositTokens *)
AmountTokens == {"-1", "0", "1", "2", "50001", "abc"}
DepositTokens == {"-1", "0", "1", "50001", "abc"}
BankNames == {"ICBC"}
ExtAccounts == {"6222"}
(* the readings of datetime.now() a record can carry *)
Times == {"2025-01-01 00:00:00"}

(* int(token): ValueError for a token that is no decimal integer *)
IntTable == [t \in {"-2", "-1", "0", "1", "2", "3", "20", "21", "50001"} |->
               CASE t = "-2" -> -2
                 [] t = "-1" -> -1
                 [] t = "0" -> 0
                 [] t = "1" -> 1
                 [] t = "2" -> 2
                 [] t = "3" -> 3
                 [] t = "20" -> 20
                 [] t = "21" -> 21
                 [] t = "50001" -> 50001]
IsInt(tok) == tok \in DOMAIN IntTable
ToInt(tok) == IntTable[tok]

(***************************************************************************)
(* Helpers: dict operations                                                *)
(***************************************************************************)
(* dict.get(k, default) *)
Get(d, k, default) == IF k \in DOMAIN d THEN d[k] ELSE default

(* d[k] = v *)
Put(d, k, v) == [x \in DOMAIN d \cup {k} |-> IF x = k THEN v ELSE d[x]]

EmptyDict == [x \in {} |-> 0]

(* cards is an insertion-ordered dict: a sequence of [uid, card] items *)
HasCard(cs, u) == \E i \in 1..Len(cs) : cs[i].uid = u
CardOf(cs, u) == cs[CHOOSE i \in 1..Len(cs) : cs[i].uid = u].card
CardUsers(cs) == {cs[i].uid : i \in 1..Len(cs)}

RECURSIVE SumSeq(_)
SumSeq(s) == IF s = <<>> THEN 0 ELSE Head(s) + SumSeq(Tail(s))

(* str(user_id)[-6:].zfill(6) *)
LastN(s, n) == IF Len(s) <= n THEN s ELSE SubSeq(s, Len(s) - n + 1, Len(s))
ZFill(s, n) == [i \in 1..(n - Len(s)) |-> 0] \o s

(* generate_card_number *)
generate_card_number(user_id) ==
    LET user_suffix == ZFill(LastN(user_id, CardSuffixLen), CardSuffixLen)
        check_digit == SumSeq(user_suffix) % 10
    IN <<"XF">> \o user_suffix \o <<check_digit>>

NoCard == <<"XF">>
BogusCard == <<"XF", 9, 9, 9, 9, 9, 9, 4>>
CardTokens == {generate_card_number(u) : u \in Users} \cup {BogusCard}

(* verify_password *)
verify_password(pws, user_id, password) ==
    user_id \in DOMAIN pws /\ pws[user_id] = password

(* target lookup of the intra-bank transfer: the first item of cards whose
   card equals target_card, NoUser (None) when there is none *)
FindTarget(cs, target_card) ==
    IF \E i \in 1..Len(cs) : cs[i].card = target_card
    THEN cs[CHOOSE i \in 1..Len(cs) :
              /\ cs[i].card = target_card
              /\ \A j \in 1..(i - 1) : cs[j].card # target_card].uid
    ELSE NoUser

(***************************************************************************)
(* The running handler and the saver thread                                *)
(***************************************************************************)
NoReply == [msg |-> "none", card |-> NoCard, balance |-> 0]
Reply(m, c, b) == [msg |-> m, card |-> c, balance |-> b]

(* cur: the handler the event loop is running.
     pc      "idle" when the loop is free
     op      the command
     user    user_id
     txq     the add_transaction calls still to make, in order
     cb      current_balance (a local read before the write-back)
     amount, target, tcard, bank   locals of the transfers
     pw      the password kaihu is about to store
     reply   the result the handler yields when it is done
     shown   display_records, the records a history query lists *)
Idle == [pc |-> "idle", op |-> "none", user |-> NoUser, txq |-> <<>>, cb |-> 0,
         amount |-> 0, target |-> NoUser, tcard |-> NoCard, pw |-> "",
         bank |-> "", reply |-> NoReply, shown |-> <<>>]

(* the handler of command `op` has nothing left to do but yield `r` and
   return; its locals are dead *)
Done(op, r) == [Idle EXCEPT !.pc = "done", !.op = op, !.reply = r]

None == <<>>

Tx(u, type, amount, target) ==
    [user |-> u, type |-> type, amount |-> amount, target |-> target]

Snapshot(a, c, p, t) == [accounts |-> a, cards |-> c, passwords |-> p, transactions |-> t]
EmptySnapshot == Snapshot(EmptyDict, <<>>, EmptyDict, EmptyDict)


NoFile == [state |-> "absent", data |-> EmptySnapshot]

(***************************************************************************)
(* BankData.load_data (lines 22-34), run by BankData() in a fresh process. *)
(* The file holds what json.dump wrote: an object with the members         *)
(* accounts, cards, passwords, transactions, in that order.  json.dump and *)
(* json.load keep string keys, integers, strings, null, list order and     *)
(* member order, so a closed file gives back the four dicts as they were   *)
(* read.  No file (os.path.exists fails) leaves the four dicts empty; so   *)
(* does a file that was opened with 'w' and not written to its end:        *)
(* json.load raises and the except branch only logs.                       *)
(***************************************************************************)
load_data(f) ==
    IF f.state = "complete"
    THEN Snapshot(f.data.accounts, f.data.cards, f.data.passwords,
                  f.data.transactions)
    ELSE EmptySnapshot

(* saver: the auto-save thread.
     pc    "sleep" between two rounds; inside save_data "begin_<dict>"
           before json.dump reaches that dict and "<dict>" while it walks it
     keys  the keys the dict had when its iterator was created *)
Asleep == [pc |-> "sleep", keys |-> {}]
Before(part) == [pc |-> "begin_" \o part, keys |-> {}]

Init ==
    /\ accounts = EmptyDict
    /\ cards = <<>>
    /\ passwords = EmptyDict
    /\ transactions = EmptyDict
    /\ lock = "free"
    /\ cur = Idle
    /\ saver = Asleep
    /\ file = NoFile

(* mutant: kaihu without the `user_id in bank_data.cards` test of line 128 *)
Kaihu_NoOpenCheck(user_id, args) ==
    /\ cur.pc = "idle"
    /\ Len(args) = 1
    /\ Len(args[1]) >= MinPasswordLen
    /\ cards' = IF HasCard(cards, user_id) THEN cards
                ELSE Append(cards, [uid |-> user_id,
                                    card |-> generate_card_number(user_id)])
    /\ cur' = [Idle EXCEPT !.pc = "k_accounts", !.op = "kaihu",
                           !.user = user_id,
                           !.tcard = generate_card_number(user_id),
                           !.pw = args[1]]
    /\ UNCHANGED <<accounts, passwords, transactions, lock, saver, file>>

(***************************************************************************)
(* /xfbank kaihu <password>        (BankPlugin.xfbank, lines 127-153)      *)
(* args: the tokens after "kaihu"                                          *)
(***************************************************************************)
Kaihu(user_id, args) ==
    /\ cur.pc = "idle"
    /\ IF HasCard(cards, user_id)
       THEN /\ cur' = Done("kaihu", Reply("already_open", CardOf(cards, user_id), 0))
            /\ UNCHANGED cards
       ELSE IF Len(args) # 1
       THEN /\ cur' = Done("kaihu", Reply("usage", NoCard, 0))
            /\ UNCHANGED cards
       ELSE IF Len(args[1]) < MinPasswordLen
       THEN /\ cur' = Done("kaihu", Reply("password_too_short", NoCard, 0))
            /\ UNCHANGED cards
       ELSE LET card_number == generate_card_number(user_id)
            IN /\ cards' = Append(cards, [uid |-> user_id, card |-> card_number])
               /\ cur' = [Idle EXCEPT !.pc = "k_accounts", !.op = "kaihu",
                                      !.user = user_id, !.tcard = card_number,
                                      !.pw = args[1]]
    /\ UNCHANGED <<accounts, passwords, transactions, lock, saver, file>>

(* bank_data.accounts[user_id] = 0 *)
KaihuAccounts ==
    /\ cur.pc = "k_accounts"
    /\ accounts' = Put(accounts, cur.user, 0)
    /\ cur' = [cur EXCEPT !.pc = "k_passwords"]
    /\ UNCHANGED <<cards, passwords, transactions, lock, saver, file>>

(* bank_data.passwords[user_id] = password; then add_transaction(.., "开户", 0) *)
KaihuPasswords ==
    /\ cur.pc = "k_passwords"
    /\ passwords' = Put(passwords, cur.user, cur.pw)
    /\ cur' = [cur EXCEPT !.pc = "tx_append", !.pw = "",
                          !.txq = <<Tx(cur.user, "kaihu", 0, None)>>]
    /\ UNCHANGED <<accounts, cards, transactions, lock, saver, file>>

(***************************************************************************)
(* BankData.add_transaction (lines 52-69), one queued call at a time       *)
(***************************************************************************)
Record(t, tx, accts) ==
    [time |-> t, type |-> tx.type, amount |-> tx.amount, target |-> tx.target,
     balance |-> Get(accts, tx.user, 0)]

(* lines 54-55: the user has no history yet; an empty list is stored for
   them, a write of its own before the append *)
AddTransactionCreate ==
    /\ cur.pc = "tx_append"
    /\ Head(cur.txq).user \notin DOMAIN transactions
    /\ transactions' = Put(transactions, Head(cur.txq).user, <<>>)
    /\ UNCHANGED <<accounts, cards, passwords, lock, cur, saver, file>>

(* lines 57-67: the list exists; build the record and append it *)
AddTransactionAppend ==
    /\ cur.pc = "tx_append"
    /\ Head(cur.txq).user \in DOMAIN transactions
    /\ \E t \in Times :
         LET tx == Head(cur.txq)
             old == Get(transactions, tx.user, <<>>)
             new == Append(old, Record(t, tx, accounts))
         IN /\ transactions' = Put(transactions, tx.user, new)
            /\ cur' = [cur EXCEPT !.pc = IF Len(new) > HistoryCap
                                         THEN "tx_trim" ELSE "tx_save"]
    /\ UNCHANGED <<accounts, cards, passwords, lock, saver, file>>

(* mutant: the slice keeps the first 100 records ([:100]) *)
Trim_KeepOldest(list) == SubSeq(list, 1, HistoryCap)

(* line 68: self.transactions[user_id] = self.transactions[user_id][-100:] *)
Trim(list) == LastN(list, HistoryCap)

AddTransactionTrim ==
    /\ cur.pc = "tx_trim"
    /\ LET u == Head(cur.txq).user
       IN transactions' = Put(transactions, u, Trim(transactions[u]))
    /\ cur' = [cur EXCEPT !.pc = "tx_save"]
    /\ UNCHANGED <<accounts, cards, passwords, lock, saver, file>>

(* save_data on the handler's thread: blocks until LOCK is free, then
   serializes the ledger and rewrites the file (lines 39-47).  The saver
   cannot run inside, and the saver never writes the ledger, so the whole
   critical section is one step. *)
SaveData ==
    /\ lock = "free"
    /\ file' = [state |-> "complete",
                data |-> Snapshot(accounts, cards, passwords, transactions)]

(* line 69: the save_data that ends add_transaction *)
AddTransactionSave ==
    /\ cur.pc = "tx_save"
    /\ SaveData
    /\ cur' = [cur EXCEPT !.txq = Tail(cur.txq),
                          !.pc = IF Len(cur.txq) > 1 THEN "tx_append" ELSE "save"]
    /\ UNCHANGED <<accounts, cards, passwords, transactions, lock, saver>>

(* the handler's own save_data after its add_transaction calls, and the
   result it then builds from the ledger (lines 147-152, 172-173, 233-240,
   273-279, 333-339, 380-384) *)
SuccessReply(c) ==
    CASE c.op = "kaihu" -> Reply("opened", c.tcard, 0)
      [] c.op = "changepwd" -> Reply("password_changed", NoCard, 0)
      [] c.op = "deposit" -> Reply("deposit_ok", NoCard, accounts[c.user])
      [] c.op = "withdraw" -> Reply("withdraw_ok", NoCard, accounts[c.user])
      [] c.op = "transfer" -> Reply("transfer_ok", c.tcard, accounts[c.user])
      [] c.op = "external" -> Reply("external_ok", NoCard, accounts[c.user])

FinalSave ==
    /\ cur.pc = "save"
    /\ SaveData
    /\ cur' = Done(cur.op, SuccessReply(cur))
    /\ UNCHANGED <<accounts, cards, passwords, transactions, lock, saver>>

(* the handler yields its result and returns: the loop is free again *)
Return ==
    /\ cur.pc = "done"
    /\ cur' = Idle
    /\ UNCHANGED <<accounts, cards, passwords, transactions, lock, saver, file>>

(***************************************************************************)
(* /xfbank changepwd <old> <new>   (BankPlugin.xfbank, lines 156-174)      *)
(***************************************************************************)
ChangePwd(user_id, old_pwd, new_pwd) ==
    /\ cur.pc = "idle"
    /\ IF ~HasCard(cards, user_id)
       THEN /\ cur' = Done("changepwd", Reply("not_open", NoCard, 0))
            /\ UNCHANGED passwords
       ELSE IF ~verify_password(passwords, user_id, old_pwd)
       THEN /\ cur' = Done("changepwd", Reply("wrong_password", NoCard, 0))
            /\ UNCHANGED passwords
       ELSE IF Len(new_pwd) < MinPasswordLen
       THEN /\ cur' = Done("changepwd", Reply("password_too_short", NoCard, 0))
            /\ UNCHANGED passwords
       ELSE /\ passwords' = Put(passwords, user_id, new_pwd)
            /\ cur' = [Idle EXCEPT !.pc = "tx_append", !.op = "changepwd",
                                   !.user = user_id,
                                   !.txq = <<Tx(user_id, "changepwd", 0, None)>>]
    /\ UNCHANGED <<accounts, cards, transactions, lock, saver, file>>

(***************************************************************************)
(* /bank balance <password>        (BankPlugin.bank, lines 189-209)        *)
(***************************************************************************)
Balance(user_id, password) ==
    /\ cur.pc = "idle"
    /\ cur' = IF ~HasCard(cards, user_id)
              THEN Done("balance", Reply("not_open", NoCard, 0))
              ELSE IF ~verify_password(passwords, user_id, password)
              THEN Done("balance", Reply("wrong_password", NoCard, 0))
              ELSE Done("balance", Reply("balance", CardOf(cards, user_id),
                              Get(accounts, user_id, 0)))
    /\ UNCHANGED <<accounts, cards, passwords, transactions, lock, saver, file>>

(* mutant: the amount checks without the verify_password test *)
CheckAmount_NoPassword(user_id, tok, password, limit) ==
    IF ~IsInt(tok) THEN "bad_amount"
    ELSE IF ToInt(tok) <= 0 THEN "amount_not_positive"
    ELSE IF ToInt(tok) > limit THEN "over_limit"
    ELSE "ok"

(* the checks the amount commands share, in the order of the code:
   int(args[..]) (ValueError), verify_password, amount <= 0, the ceiling.
   "ok" when all pass. *)
CheckAmount(user_id, tok, password, limit) ==
    IF ~IsInt(tok) THEN "bad_amount"
    ELSE IF ~verify_password(passwords, user_id, password) THEN "wrong_password"
    ELSE IF ToInt(tok) <= 0 THEN "amount_not_positive"
    ELSE IF ToInt(tok) > limit THEN "over_limit"
    ELSE "ok"

(***************************************************************************)
(* /bank deposit <amount> <password>     (lines 212-244)                   *)
(***************************************************************************)
Deposit(user_id, tok, password) ==
    /\ cur.pc = "idle"
    /\ IF ~HasCard(cards, user_id)
       THEN /\ cur' = Done("deposit", Reply("not_open", NoCard, 0))
            /\ UNCHANGED accounts
       ELSE LET chk == CheckAmount(user_id, tok, password, DepositLimit)
            IN IF chk # "ok"
               THEN /\ cur' = Done("deposit", Reply(chk, NoCard, 0))
                    /\ UNCHANGED accounts
               ELSE LET amount == ToInt(tok)
                    IN /\ accounts' = Put(accounts, user_id,
                                          Get(accounts, user_id, 0) + amount)
                       /\ cur' = [Idle EXCEPT !.pc = "tx_append", !.op = "deposit",
                                              !.user = user_id, !.amount = amount,
                                              !.txq = <<Tx(user_id, "deposit", amount, None)>>]
    /\ UNCHANGED <<cards, passwords, transactions, lock, saver, file>>

(* mutant: the withdrawal skips the balance check of lines 265-268 *)
Withdraw_NoBalanceCheck(user_id, tok, password) ==
    /\ cur.pc = "idle"
    /\ HasCard(cards, user_id)
    /\ CheckAmount(user_id, tok, password, WithdrawLimit) = "ok"
    /\ accounts' = Put(accounts, user_id, Get(accounts, user_id, 0) - ToInt(tok))
    /\ cur' = [Idle EXCEPT !.pc = "tx_append", !.op = "withdraw",
                           !.user = user_id, !.amount = ToInt(tok),
                           !.cb = Get(accounts, user_id, 0),
                           !.txq = <<Tx(user_id, "withdraw", ToInt(tok), None)>>]
    /\ UNCHANGED <<cards, passwords, transactions, lock, saver, file>>

(***************************************************************************)
(* /bank withdraw <amount> <password>    (lines 247-283)                   *)
(***************************************************************************)
Withdraw(user_id, tok, password) ==
    /\ cur.pc = "idle"
    /\ IF ~HasCard(cards, user_id)
       THEN /\ cur' = Done("withdraw", Reply("not_open", NoCard, 0))
            /\ UNCHANGED accounts
       ELSE LET chk == CheckAmount(user_id, tok, password, WithdrawLimit)
                current_balance == Get(accounts, user_id, 0)
            IN IF chk # "ok"
               THEN /\ cur' = Done("withdraw", Reply(chk, NoCard, 0))
                    /\ UNCHANGED accounts
               ELSE IF current_balance < ToInt(tok)
               THEN /\ cur' = Done("withdraw", Reply("insufficient", NoCard, current_balance))
                    /\ UNCHANGED accounts
               ELSE LET amount == ToInt(tok)
                    IN /\ accounts' = Put(accounts, user_id, current_balance - amount)
                       /\ cur' = [Idle EXCEPT !.pc = "tx_append", !.op = "withdraw",
                                              !.user = user_id, !.amount = amount,
                                              !.cb = current_balance,
                                              !.txq = <<Tx(user_id, "withdraw", amount, None)>>]
    /\ UNCHANGED <<cards, passwords, transactions, lock, saver, file>>

(***************************************************************************)
(* /bank transfer 本行 <card> <amount> <password>    (lines 286-343)       *)
(***************************************************************************)
(* mutant: the validation without the balance test of lines 320-323 *)
CheckTransfer_NoFundsCheck(user_id, target_card, tok, password) ==
    LET chk == CheckAmount(user_id, tok, password, TransferLimit)
        target_user_id == FindTarget(cards, target_card)
    IN IF chk # "ok" THEN chk
       ELSE IF target_user_id = NoUser THEN "unknown_card"
       ELSE IF target_user_id = user_id THEN "self_transfer"
       ELSE "ok"

(* mutant: the validation without the own-card test of lines 315-317 *)
CheckTransfer_NoSelfCheck(user_id, target_card, tok, password) ==
    LET chk == CheckAmount(user_id, tok, password, TransferLimit)
        target_user_id == FindTarget(cards, target_card)
    IN IF chk # "ok" THEN chk
       ELSE IF target_user_id = NoUser THEN "unknown_card"
       ELSE IF Get(accounts, user_id, 0) < ToInt(tok) THEN "insufficient"
       ELSE "ok"

(* lines 287-323: every check of the intra-bank transfer; "ok" or the
   rejection *)
CheckTransfer(user_id, target_card, tok, password) ==
    LET chk == CheckAmount(user_id, tok, password, TransferLimit)
        target_user_id == FindTarget(cards, target_card)
    IN IF chk # "ok" THEN chk
       ELSE IF target_user_id = NoUser THEN "unknown_card"
       ELSE IF target_user_id = user_id THEN "self_transfer"
       ELSE IF Get(accounts, user_id, 0) < ToInt(tok) THEN "insufficient"
       ELSE "ok"

TransferLocal(user_id, target_card, tok, password) ==
    /\ cur.pc = "idle"
    /\ cur' = IF ~HasCard(cards, user_id)
              THEN Done("transfer", Reply("not_open", NoCard, 0))
              ELSE LET chk == CheckTransfer(user_id, target_card, tok, password)
                   IN IF chk # "ok"
                      THEN Done("transfer", Reply(chk, NoCard,
                                      IF chk = "insufficient"
                                      THEN Get(accounts, user_id, 0) ELSE 0))
                      ELSE [Idle EXCEPT !.pc = "t_lock", !.op = "transfer",
                                        !.user = user_id, !.amount = ToInt(tok),
                                        !.cb = Get(accounts, user_id, 0),
                                        !.target = FindTarget(cards, target_card),
                                        !.tcard = target_card]
    /\ UNCHANGED <<accounts, cards, passwords, transactions, lock, saver, file>>

(* mutant: the debit and credit run without taking LOCK *)
TransferLock_NoLock ==
    /\ cur.pc = "t_lock"
    /\ lock' = lock
    /\ cur' = [cur EXCEPT !.pc = "t_debit"]
    /\ UNCHANGED <<accounts, cards, passwords, transactions, saver, file>>

(* line 326: with LOCK (blocks the loop thread while the saver holds it) *)
TransferLock ==
    /\ cur.pc = "t_lock"
    /\ lock = "free"
    /\ lock' = "loop"
    /\ cur' = [cur EXCEPT !.pc = "t_debit"]
    /\ UNCHANGED <<accounts, cards, passwords, transactions, saver, file>>

(* mutant: the write-back of line 327 forgets to subtract the amount *)
TransferDebit_NoDebit ==
    /\ cur.pc = "t_debit"
    /\ accounts' = Put(accounts, cur.user, cur.cb)
    /\ cur' = [cur EXCEPT !.pc = "t_credit"]
    /\ UNCHANGED <<cards, passwords, transactions, lock, saver, file>>

(* line 327: accounts[user_id] = current_balance - amount *)
TransferDebit ==
    /\ cur.pc = "t_debit"
    /\ accounts' = Put(accounts, cur.user, cur.cb - cur.amount)
    /\ cur' = [cur EXCEPT !.pc = "t_credit"]
    /\ UNCHANGED <<cards, passwords, transactions, lock, saver, file>>

(* line 328 and the end of the with block: credit the target, release LOCK;
   lines 331-332 queue the two add_transaction calls *)
(* mutant: the add_transaction calls and the save_data moved inside the
   `with LOCK` block, so the handler still holds LOCK when it persists *)
TransferCredit_KeepsLock ==
    /\ cur.pc = "t_credit"
    /\ accounts' = Put(accounts, cur.target, Get(accounts, cur.target, 0) + cur.amount)
    /\ lock' = lock
    /\ cur' = [cur EXCEPT !.pc = "tx_append",
                          !.txq = <<Tx(cur.user, "transfer_out", cur.amount, cur.tcard),
                                    Tx(cur.target, "transfer_in", cur.amount,
                                       CardOf(cards, cur.user))>>]
    /\ UNCHANGED <<cards, passwords, transactions, saver, file>>

TransferCredit ==
    /\ cur.pc = "t_credit"
    /\ accounts' = Put(accounts, cur.target, Get(accounts, cur.target, 0) + cur.amount)
    /\ lock' = "free"
    /\ cur' = [cur EXCEPT !.pc = "tx_append",
                          !.txq = <<Tx(cur.user, "transfer_out", cur.amount, cur.tcard),
                                    Tx(cur.target, "transfer_in", cur.amount,
                                       CardOf(cards, cur.user))>>]
    /\ UNCHANGED <<cards, passwords, transactions, saver, file>>

(***************************************************************************)
(* /bank transfer <bank> <account> <amount> <password>   (lines 346-392)   *)
(***************************************************************************)
TransferExternal(user_id, bank_name, target_account, tok, password) ==
    /\ cur.pc = "idle"
    /\ IF ~HasCard(cards, user_id)
       THEN /\ cur' = Done("external", Reply("not_open", NoCard, 0))
            /\ UNCHANGED accounts
       ELSE LET chk == CheckAmount(user_id, tok, password, TransferLimit)
                current_balance == Get(accounts, user_id, 0)
            IN IF chk # "ok"
               THEN /\ cur' = Done("external", Reply(chk, NoCard, 0))
                    /\ UNCHANGED accounts
               ELSE IF current_balance < ToInt(tok)
               THEN /\ cur' = Done("external", Reply("insufficient", NoCard, current_balance))
                    /\ UNCHANGED accounts
               ELSE LET amount == ToInt(tok)
                    IN /\ accounts' = Put(accounts, user_id, current_balance - amount)
                       /\ cur' = [Idle EXCEPT !.pc = "x_call", !.op = "external",
                                              !.user = user_id, !.amount = amount,
                                              !.cb = current_balance,
                                              !.bank = bank_name,
                                              !.target = <<target_account>>]
    /\ UNCHANGED <<cards, passwords, transactions, lock, saver, file>>

(* f"跨行转账至{bank_name}" *)
ExternalType(bank_name) == "external_" \o bank_name

(* mutant: the failure branch does not write the saved balance back *)
ExternalReturn_NoRollback(success) ==
    /\ cur.pc = "x_call"
    /\ cur' = IF success
              THEN [cur EXCEPT !.pc = "tx_append",
                               !.txq = <<Tx(cur.user, ExternalType(cur.bank), cur.amount,
                                            cur.target)>>]
              ELSE Done("external", Reply("external_failed", NoCard, 0))
    /\ UNCHANGED <<accounts, cards, passwords, transactions, lock, saver, file>>

(* other_bank_transfer (lines 86-92) returns to the handler (lines 375-389).
   The call is time.sleep(0.5) on the loop thread: the handler stays the
   running one until it returns.  The shipped stub always answers True; the
   handler branches on the answer, and `success` ranges over both answers
   of the collaborator the stub stands for. *)
ExternalReturn(success) ==
    /\ cur.pc = "x_call"
    /\ IF success
       THEN /\ cur' = [cur EXCEPT !.pc = "tx_append",
                                  !.txq = <<Tx(cur.user, ExternalType(cur.bank), cur.amount,
                                               cur.target)>>]
            /\ UNCHANGED accounts
       ELSE /\ accounts' = Put(accounts, cur.user, cur.cb)
            /\ cur' = Done("external", Reply("external_failed", NoCard, 0))
    /\ UNCHANGED <<cards, passwords, transactions, lock, saver, file>>

(***************************************************************************)
(* /bank record [count] <password>   (BankPlugin.bank, lines 189-191 and   *)
(* 395-428).  args: the tokens after "record", one or two of them.         *)
(***************************************************************************)
Min(a, b) == IF a < b THEN a ELSE b
Max(a, b) == IF a > b THEN a ELSE b

(* Python's list[start:]: a negative start counts from the end, and a start
   outside the list is clipped to it *)
SliceFrom(list, start) ==
    LET n == Len(list)
        i == IF start < 0 THEN Max(n + start, 0) ELSE Min(start, n)
    IN SubSeq(list, i + 1, n)

(* list[::-1] *)
Reversed(list) == [i \in 1..Len(list) |-> list[Len(list) + 1 - i]]

(* display_records = records[-count:][::-1] *)
DisplayRecords(records, count) == Reversed(SliceFrom(records, -count))

RecordQuery(user_id, args) ==
    /\ cur.pc = "idle"
    /\ Len(args) \in {1, 2}
    /\ cur' = IF ~HasCard(cards, user_id)
              THEN Done("record", Reply("not_open", NoCard, 0))
              ELSE IF Len(args) = 2 /\ ~IsInt(args[1])
              THEN Done("record", Reply("record_usage", NoCard, 0))
              ELSE LET count == IF Len(args) = 2
                                THEN Min(ToInt(args[1]), RecordLimit)
                                ELSE RecordDefault
                       password == args[Len(args)]
                       records == Get(transactions, user_id, <<>>)
                   IN IF ~verify_password(passwords, user_id, password)
                      THEN Done("record", Reply("wrong_password", NoCard, 0))
                      ELSE IF records = <<>>
                      THEN Done("record", Reply("no_records", NoCard, 0))
                      ELSE [Done("record", Reply("records", NoCard, 0))
                              EXCEPT !.shown = DisplayRecords(records, count)]
    /\ UNCHANGED <<accounts, cards, passwords, transactions, lock, saver, file>>

(***************************************************************************)
(* The auto-save thread: start_auto_save / save_data (lines 36-50, 101-111)*)
(***************************************************************************)
(* the file a save_data has opened with 'w' and written nothing to; also
   the file it leaves when it raises before the end of the dump *)
CutShort == [state |-> "partial", data |-> EmptySnapshot]

(* the dicts in the order json.dump writes them (lines 40-45) *)
NextPart(part) ==
    CASE part = "accounts" -> "cards"
      [] part = "cards" -> "passwords"
      [] part = "passwords" -> "transactions"

(* the dict of the ledger that data[part] refers to *)
LedgerPart(part) ==
    CASE part = "accounts" -> accounts
      [] part = "cards" -> cards
      [] part = "passwords" -> passwords
      [] part = "transactions" -> transactions

(* the keys of a ledger dict (cards is kept as its list of items) *)
Keys(d, part) == IF part = "cards" THEN CardUsers(d) ELSE DOMAIN d

(* the key the iterator yields next: the dicts keep insertion order, and
   every dict gets a user's key in the order in which the users opened
   their accounts, which is the order of cards *)
NextKey(part) ==
    LET rest == saver.keys \ Keys(file.data[part], part)
        i == CHOOSE n \in 1..Len(cards) :
                /\ cards[n].uid \in rest
                /\ \A m \in 1..(n - 1) : cards[m].uid \notin rest
    IN cards[i].uid

(* save_data's except branch (lines 49-50): the error is logged, LOCK has
   been released by `with`, the file stays cut short, the thread sleeps *)
SaverRaises ==
    /\ saver' = Asleep
    /\ lock' = "free"
    /\ file' = CutShort

(* the dict is written to its end.  After transactions the dump is over:
   the file is closed and LOCK released (lines 46-48). *)
SaverEndsPart(part) ==
    IF part = "transactions"
    THEN /\ file' = [state |-> "complete", data |-> file.data]
         /\ saver' = Asleep
         /\ lock' = "free"
    ELSE /\ saver' = Before(NextPart(part))
         /\ UNCHANGED <<file, lock>>

(* lines 39-46: with LOCK; open(DATA_FILE, 'w') truncates the file *)
SaverAcquire ==
    /\ saver.pc = "sleep"
    /\ lock = "free"
    /\ lock' = "saver"
    /\ saver' = Before("accounts")
    /\ file' = CutShort
    /\ UNCHANGED <<accounts, cards, passwords, transactions, cur>>

(* line 47, json.dump reaches a dict: an empty one is written as {} at
   once, for any other an iterator is created, which notes the dict's size *)
SaverBegin(part) ==
    /\ saver.pc = "begin_" \o part
    /\ IF Keys(LedgerPart(part), part) = {}
       THEN SaverEndsPart(part)
       ELSE /\ saver' = [pc |-> part, keys |-> Keys(LedgerPart(part), part)]
            /\ UNCHANGED <<file, lock>>
    /\ UNCHANGED <<accounts, cards, passwords, transactions, cur>>

(* line 47, one step of the iterator.  It raises RuntimeError ("dictionary
   changed size during iteration") when a key has been inserted since it
   was created: the handlers write the ledger without LOCK.  Otherwise it
   yields the next key with the value the key has now, which is written to
   the file, or it is exhausted. *)
SaverNext(part) ==
    /\ saver.pc = part
    /\ IF Keys(LedgerPart(part), part) # saver.keys
       THEN SaverRaises
       ELSE IF Keys(file.data[part], part) = saver.keys
       THEN SaverEndsPart(part)
       ELSE /\ file' = [file EXCEPT !.data[part] =
                           IF part = "cards"
                           THEN Append(@, cards[Len(@) + 1])
                           ELSE Put(@, NextKey(part),
                                    LedgerPart(part)[NextKey(part)])]
            /\ UNCHANGED <<saver, lock>>
    /\ UNCHANGED <<accounts, cards, passwords, transactions, cur>>

SaverParts == {"accounts", "cards", "passwords", "transactions"}

Saver ==
    \/ SaverAcquire
    \/ \E part \in SaverParts : SaverBegin(part)
    \/ \E part \in SaverParts : SaverNext(part)

(***************************************************************************)
(* BankPlugin.terminate (lines 116-118): the plugin is unloaded and calls  *)
(* save_data on the loop thread, with no handler running.  The auto-save   *)
(* thread is a daemon thread of the process and goes on.                   *)
(***************************************************************************)
Terminate ==
    /\ cur.pc = "idle"
    /\ SaveData
    /\ UNCHANGED <<accounts, cards, passwords, transactions, lock, cur, saver>>

(***************************************************************************)
(* save_data when the file cannot be written (lines 38-50).  open() or     *)
(* json.dump raises inside `with LOCK`, which releases LOCK on the way     *)
(* out; the except branch logs and save_data returns normally.  A failed   *)
(* open leaves the file as it was, a failed write leaves it opened with    *)
(* 'w' and not written to its end.                                         *)
(***************************************************************************)
(* mutant: LOCK taken with acquire() and released only after the dump *)
SaveDataFails_KeepsLock ==
    /\ lock = "free"
    /\ lock' = "loop"
    /\ file' \in {file, CutShort}

SaveDataFails ==
    /\ lock = "free"
    /\ lock' = "free"
    /\ file' \in {file, CutShort}

(* line 69 with a failing save_data: add_transaction returns all the same *)
AddTransactionSaveFails ==
    /\ cur.pc = "tx_save"
    /\ SaveDataFails
    /\ cur' = [cur EXCEPT !.txq = Tail(cur.txq),
                          !.pc = IF Len(cur.txq) > 1 THEN "tx_append" ELSE "save"]
    /\ UNCHANGED <<accounts, cards, passwords, transactions, saver>>

(* the handler's own save_data fails: the handler goes on to its result *)
FinalSaveFails ==
    /\ cur.pc = "save"
    /\ SaveDataFails
    /\ cur' = Done(cur.op, SuccessReply(cur))
    /\ UNCHANGED <<accounts, cards, passwords, transactions, saver>>

(* terminate's save_data fails *)
TerminateFails ==
    /\ cur.pc = "idle"
    /\ SaveDataFails
    /\ UNCHANGED <<accounts, cards, passwords, transactions, cur, saver>>

(* the auto-save thread's write fails part-way: LOCK is released, the file
   stays cut short, the thread sleeps until its next round *)
SaverFails ==
    /\ saver.pc # "sleep"
    /\ saver' = Asleep
    /\ lock' = "free"
    /\ file' = CutShort
    /\ UNCHANGED <<accounts, cards, passwords, transactions, cur>>

(***************************************************************************)
(* The specification                                                       *)
(***************************************************************************)
KaihuArgs == {<<>>, <<"abcdef", "abcdef">>} \cup {<<p>> : p \in OpenPwTokens}

RECURSIVE SumLen(_, _)
SumLen(t, S) ==
    IF S = {} THEN 0
    ELSE LET u == CHOOSE x \in S : TRUE IN Len(t[u]) + SumLen(t, S \ {u})
TotalRecords == SumLen(transactions, DOMAIN transactions)

(* the bounds of the model: a command that may append n records is taken
   only while that keeps the ledger within MaxRecords records, and a deposit
   only while the balance stays within MaxBalance *)
RoomFor(n, max) == TotalRecords + n <= max
DepositFits(u, tok) == IsInt(tok) => Get(accounts, u, 0) + ToInt(tok) <= MaxBalance

(* the commands, with their inputs drawn from the given sets *)
CmdKaihu(US, max) ==
    \E u \in US, args \in KaihuArgs :
       (HasCard(cards, u) \/ RoomFor(1, max)) /\ Kaihu(u, args)

CmdChangePwd(US, PW, max) ==
    \E u \in US, old \in PW, new \in NewPwTokens :
       RoomFor(1, max) /\ ChangePwd(u, old, new)

CmdBalance(US, PW) ==
    \E u \in US, pw \in PW : Balance(u, pw)

CmdDeposit(US, PW, AM, max) ==
    \E u \in US, tok \in AM \cap DepositTokens, pw \in PW :
       RoomFor(1, max) /\ DepositFits(u, tok) /\ Deposit(u, tok, pw)

CmdWithdraw(US, PW, AM, max) ==
    \E u \in US, tok \in AM, pw \in PW :
       RoomFor(1, max) /\ Withdraw(u, tok, pw)

CmdTransferLocal(US, PW, AM, max) ==
    \E u \in US, c \in CardTokens, tok \in AM, pw \in PW :
       RoomFor(2, max) /\ TransferLocal(u, c, tok, pw)

CmdTransferExternal(US, PW, AM, max) ==
    \E u \in US, b \in BankNames, a \in ExtAccounts, tok \in AM, pw \in PW :
       RoomFor(1, max) /\ TransferExternal(u, b, a, tok, pw)

CmdRecord(US, CT, PW) ==
    \E u \in US, args \in {<<pw>> : pw \in PW} \cup (CT \X PW) :
       RecordQuery(u, args)

(* Spec: two users with distinct cards, every /bank command and kaihu,
   terminate, the auto-save thread.  changepwd, whose handler writes one
   password and then runs the same add_transaction and save_data as the
   others, is left to SpecHandlers.
   No history reaches HistoryCap within MaxRecords, so the trim step of
   add_transaction is not a step of Next; SpecHist covers it. *)
Next ==
    \/ CmdKaihu(TwoUsers, MaxRecords)
    \/ CmdBalance(TwoUsers, PwTokens)
    \/ CmdDeposit(TwoUsers, PwTokens, AmountTokens, MaxRecords)
    \/ CmdWithdraw(TwoUsers, PwTokens, AmountTokens, MaxRecords)
    \/ CmdTransferLocal(TwoUsers, PwTokens, AmountTokens, MaxRecords)
    \/ CmdTransferExternal(TwoUsers, PwTokens, AmountTokens, MaxRecords)
    \/ CmdRecord(TwoUsers, {"1"}, PwTokens)
    \/ KaihuAccounts
    \/ KaihuPasswords
    \/ TransferLock
    \/ TransferDebit
    \/ TransferCredit
    \/ \E success \in BOOLEAN : ExternalReturn(success)
    \/ AddTransactionCreate
    \/ AddTransactionAppend
    \/ AddTransactionSave
    \/ FinalSave
    \/ Return
    \/ Terminate
    \/ Saver

Spec == Init /\ [][Next]_vars

(* SpecHandlers: two users, every command of the plugin with every
   password and amount token (changepwd from PwChangers), terminate;
   without the auto-save thread, which writes nothing a handler reads *)
NextHandlers ==
    \/ CmdKaihu(TwoUsers, MaxRecords)
    \/ CmdChangePwd(PwChangers, PwTokens, MaxRecords)
    \/ CmdBalance(TwoUsers, PwTokens)
    \/ CmdDeposit(TwoUsers, PwTokens, AmountTokens, MaxRecords)
    \/ CmdWithdraw(TwoUsers, PwTokens, AmountTokens, MaxRecords)
    \/ CmdTransferLocal(TwoUsers, PwTokens, AmountTokens, MaxRecords)
    \/ CmdTransferExternal(TwoUsers, PwTokens, AmountTokens, MaxRecords)
    \/ CmdRecord(TwoUsers, {"1"}, PwTokens)
    \/ KaihuAccounts
    \/ KaihuPasswords
    \/ TransferLock
    \/ TransferDebit
    \/ TransferCredit
    \/ \E success \in BOOLEAN : ExternalReturn(success)
    \/ AddTransactionCreate
    \/ AddTransactionAppend
    \/ AddTransactionSave
    \/ FinalSave
    \/ Return
    \/ Terminate

SpecHandlers == Init /\ [][NextHandlers]_vars

(* SpecCards: three users, two of whose ids end in the same six digits;
   open, deposit and intra-bank transfer, without the saver thread *)
GoodPw == {"abcdef"}
OneUnit == {"1"}

NextCards ==
    \/ CmdKaihu(Users, MaxRecords3)
    \/ CmdDeposit(Users, GoodPw, OneUnit, MaxRecords3)
    \/ CmdTransferLocal(Users, GoodPw, OneUnit, MaxRecords3)
    \/ KaihuAccounts
    \/ KaihuPasswords
    \/ TransferLock
    \/ TransferDebit
    \/ TransferCredit
    \/ AddTransactionCreate
    \/ AddTransactionAppend
    \/ AddTransactionSave
    \/ FinalSave
    \/ Return

SpecCards == Init /\ [][NextCards]_vars

(* SpecHist: one user opens an account and deposits 1 again and again, so
   that the history passes HistoryCap and add_transaction trims it *)
NextHist ==
    \/ Kaihu(U1, <<"abcdef">>)
    \/ KaihuAccounts
    \/ KaihuPasswords
    \/ (Get(accounts, U1, 0) < HistMaxBalance /\ Deposit(U1, "1", "abcdef"))
    \/ AddTransactionCreate
    \/ AddTransactionAppend
    \/ AddTransactionTrim
    \/ AddTransactionSave
    \/ FinalSave
    \/ Return

SpecHist == Init /\ [][NextHist]_vars

(* SpecRecord: one user opens an account, deposits 1 up to RecMaxBalance
   times and asks for the history with every count of CountTokens, and
   without a count *)
RecMaxBalance == 22
CountTokens == {"-2", "-1", "0", "1", "3", "20", "21", "abc"}
RecordArgs(PW) == {<<pw>> : pw \in PW} \cup (CountTokens \X PW)

NextRecord ==
    \/ Kaihu(U1, <<"abcdef">>)
    \/ KaihuAccounts
    \/ KaihuPasswords
    \/ (Get(accounts, U1, 0) < RecMaxBalance /\ Deposit(U1, "1", "abcdef"))
    \/ CmdRecord({U1}, CountTokens, {"abcdef", "abc"})
    \/ AddTransactionCreate
    \/ AddTransactionAppend
    \/ AddTransactionSave
    \/ FinalSave
    \/ Return

SpecRecord == Init /\ [][NextRecord]_vars

(* SpecIO: two users open, deposit, withdraw and transfer while any
   save_data, of a handler or of the auto-save thread, may fail *)
NextIO ==
    \/ CmdKaihu(TwoUsers, MaxRecordsIO)
    \/ CmdDeposit(TwoUsers, GoodPw, OneUnit, MaxRecordsIO)
    \/ CmdWithdraw(TwoUsers, GoodPw, OneUnit, MaxRecordsIO)
    \/ CmdTransferLocal(TwoUsers, GoodPw, OneUnit, MaxRecordsIO)
    \/ KaihuAccounts
    \/ KaihuPasswords
    \/ TransferLock
    \/ TransferDebit
    \/ TransferCredit
    \/ AddTransactionCreate
    \/ AddTransactionAppend
    \/ AddTransactionSave
    \/ AddTransactionSaveFails
    \/ FinalSave
    \/ FinalSaveFails
    \/ Return
    \/ Terminate
    \/ TerminateFails
    \/ Saver
    \/ SaverFails

SpecIO == Init /\ [][NextIO]_vars

(* SpecLive: two users open, deposit and transfer, inside the bank and to
   another bank, beside the auto-save thread, under fair scheduling.
   HandlerStep: the loop thread runs the handler it has started.  Its
   steps that take LOCK are disabled while the auto-save thread holds it,
   and enabled again each time that thread releases it: the thread sleeps
   300 seconds between two persists (line 108), so a waiting handler gets
   LOCK, which is strong fairness.  The external call returns
   (time.sleep(0.5)).  SaverStep: the auto-save thread, once inside
   save_data, runs on to the end of it.  New commands and new auto-save
   rounds are not forced. *)
HandlerStep ==
    \/ KaihuAccounts
    \/ KaihuPasswords
    \/ TransferLock
    \/ TransferDebit
    \/ TransferCredit
    \/ \E success \in BOOLEAN : ExternalReturn(success)
    \/ AddTransactionCreate
    \/ AddTransactionAppend
    \/ AddTransactionSave
    \/ FinalSave
    \/ Return

SaverStep ==
    \/ \E part \in SaverParts : SaverBegin(part)
    \/ \E part \in SaverParts : SaverNext(part)

NextLive ==
    \/ CmdKaihu(TwoUsers, MaxRecordsLive)
    \/ CmdDeposit(TwoUsers, GoodPw, OneUnit, MaxRecordsLive)
    \/ CmdTransferLocal(TwoUsers, GoodPw, OneUnit, MaxRecordsLive)
    \/ CmdTransferExternal(TwoUsers, GoodPw, OneUnit, MaxRecordsLive)
    \/ HandlerStep
    \/ SaverAcquire
    \/ SaverStep

SpecLive ==
    /\ Init
    /\ [][NextLive]_vars
    /\ SF_vars(HandlerStep)
    /\ WF_vars(SaverStep)

(***************************************************************************)
(* Properties                                                              *)
(***************************************************************************)
RECURSIVE SumOver(_, _)
SumOver(a, S) ==
    IF S = {} THEN 0
    ELSE LET u == CHOOSE x \in S : TRUE IN a[u] + SumOver(a, S \ {u})

(* the sum of all balances *)
Total(a) == SumOver(a, DOMAIN a)

(* the amount an intra-bank transfer has taken from its source and not yet
   given to its target *)
InFlight(c) == IF c.pc = "t_credit" THEN c.amount ELSE 0

(* C1: intra-bank transfers, successful or rejected, keep the sum of all
   balances: the sum (counting the amount a running transfer holds between
   its debit and its credit) changes only in a step of a deposit, a
   withdrawal or an external transfer. *)
C1_TransfersConserveTotal ==
    [][Total(accounts') + InFlight(cur') # Total(accounts) + InFlight(cur)
         => \/ cur'.op \in {"deposit", "withdraw", "external"}
            \/ cur.op = "external"]_vars

(* a transfer has completed and moved money to an account that was empty *)
C1_Witness ==
    /\ cur.pc = "done"
    /\ cur.reply.msg = "transfer_ok"
    /\ cur.reply.balance = 0
    /\ Total(accounts) = 1

(* C2: in every reachable state every balance is at least 0, also between
   the optimistic debit of an external transfer and its outcome. *)
C2_BalancesNonNegative == \A u \in DOMAIN accounts : accounts[u] >= 0

(* an external transfer has debited the whole balance and awaits its outcome *)
C2_Witness ==
    /\ cur.pc = "x_call"
    /\ cur.cb > 0
    /\ accounts[cur.user] = 0

(* C3: between the debit and the credit of an intra-bank transfer the
   handler holds LOCK, the saver is not serializing, and the only step that
   can be taken is the credit itself: no other handler and no persist sees
   the source debited and the target not yet credited. *)
C3_TransferAtomic ==
    [][cur.pc = "t_credit"
         => /\ lock = "loop"
            /\ saver.pc = "sleep"
            /\ cur'.pc = "tx_append"
            /\ saver' = saver
            /\ file' = file]_vars

(* a transfer stands between its debit and its credit while a file written
   earlier is on disk *)
C3_Witness ==
    /\ cur.pc = "t_credit"
    /\ accounts[cur.user] = cur.cb - cur.amount
    /\ file.state = "complete"

(* the last record of u's history *)
LastRecord(u) == transactions[u][Len(transactions[u])]

(* C4: when the external bank reports failure, the source balance is again
   what it was before the optimistic debit and the history has no new
   record: the external transfer's debit step and its failure step leave
   every history alone, the balance saved at the debit is the balance before
   it, and the failure step writes that balance back (which is also the
   balance the source's last record shows). *)
C4_ExternalFailureRollsBack ==
    [][/\ (cur.pc = "idle" /\ cur'.pc = "x_call")
            => /\ cur'.cb = accounts[cur'.user]
               /\ accounts'[cur'.user] = accounts[cur'.user] - cur'.amount
               /\ transactions' = transactions
       /\ (cur.pc = "x_call" /\ cur'.reply.msg = "external_failed")
            => /\ accounts'[cur.user] = cur.cb
               /\ accounts'[cur.user] = accounts[cur.user] + cur.amount
               /\ accounts'[cur.user] = LastRecord(cur.user).balance
               /\ \A v \in DOMAIN accounts \ {cur.user} : accounts'[v] = accounts[v]
               /\ transactions' = transactions]_vars

(* an external transfer has failed and its result is about to be yielded:
   the money is back and the last record is not an external one *)
C4_Witness ==
    /\ cur.pc = "done"
    /\ cur.reply.msg = "external_failed"
    /\ \E u \in DOMAIN accounts :
          /\ accounts[u] = 1
          /\ LastRecord(u).type = "deposit"

RECURSIVE CountType(_, _)
CountType(list, type) ==
    IF list = <<>> THEN 0
    ELSE (IF Head(list).type = type THEN 1 ELSE 0) + CountType(Tail(list), type)

OpenRecords(t, u) == CountType(Get(t, u, <<>>), "kaihu")

(* C5 as stated: opening is idempotent and the history of every account
   holder contains exactly one open-account record.  Whenever no handler is
   at work, every user that has a card has exactly one record of type
   kaihu.  add_transaction keeps the latest HistoryCap records only (lines
   67-68): the hundredth record after the opening evicts the open-account
   record and the history holds none. *)
C5_ExactlyOneOpenRecord ==
    cur.pc \in {"idle", "done"}
      => \A u \in Users :
            HasCard(cards, u) => OpenRecords(transactions, u) = 1

(* C5, amended: opening is idempotent.  A card once assigned never changes.
   A kaihu sent by a user who has a card, with any arguments, is answered
   in that step with that user's own card and leaves balances, cards,
   passwords, histories and the file as they were; the first kaihu answers
   with the card it assigned and balance 0.  No history ever holds two
   open-account records.  Whenever no handler is at work the history of a
   card holder holds one exactly when its oldest record is the opening
   one, which is so for every history below HistoryCap records; once the
   trim has evicted the opening record the history holds none, and a
   repeated kaihu does not bring it back. *)
C5_OpenIdempotent ==
    [][/\ \A u \in Users :
            /\ HasCard(cards, u)
                 => HasCard(cards', u) /\ CardOf(cards', u) = CardOf(cards, u)
            /\ OpenRecords(transactions', u) <= 1
            /\ (HasCard(cards', u) /\ cur'.pc \in {"idle", "done"})
                 => LET list == Get(transactions', u, <<>>)
                    IN /\ list # <<>>
                       /\ Len(list) < HistoryCap => list[1].type = "kaihu"
                       /\ OpenRecords(transactions', u) = 1
                            <=> list[1].type = "kaihu"
            /\ (cur.pc = "idle" /\ HasCard(cards, u))
                 => \A args \in KaihuArgs :
                       Kaihu(u, args)
                         => /\ cur' = Done("kaihu",
                                          Reply("already_open", CardOf(cards, u), 0))
                            /\ accounts' = accounts
                            /\ cards' = cards
                            /\ passwords' = passwords
                            /\ transactions' = transactions
                            /\ file' = file
       /\ (cur.pc = "save" /\ cur.op = "kaihu" /\ cur'.pc = "done")
            => cur'.reply = Reply("opened", CardOf(cards, cur.user), 0)]_vars

(* a repeated kaihu has been answered with the user's card after the trim
   evicted the opening record: the account holds money, the history is
   full and holds no open-account record *)
C5_Witness ==
    /\ cur.pc = "done"
    /\ HasCard(cards, U1)
    /\ cur.reply = Reply("already_open", CardOf(cards, U1), 0)
    /\ accounts[U1] >= HistoryCap
    /\ Len(transactions[U1]) = HistoryCap
    /\ OpenRecords(transactions, U1) = 0

(* an intra-bank transfer that passes every check but the balance: the
   sender has an account and gives its password, the amount is a positive
   integer within the ceiling, the card is not the sender's and belongs to
   another account, and the amount exceeds the sender's balance *)
OverdrawnTransfer(u, c, tok, pw) ==
    /\ HasCard(cards, u)
    /\ u \in DOMAIN passwords /\ passwords[u] = pw
    /\ IsInt(tok) /\ ToInt(tok) > 0 /\ ToInt(tok) <= TransferLimit
    /\ CardOf(cards, u) # c
    /\ \E v \in CardUsers(cards) \ {u} : CardOf(cards, v) = c
    /\ ToInt(tok) > Get(accounts, u, 0)

(* C8: an intra-bank transfer whose amount exceeds the source's balance
   ends with the insufficient-funds result (which shows the balance) and
   leaves every balance, history, card and password as it was. *)
C8_InsufficientFundsRejected ==
    [][\A u \in CardUsers(cards), c \in CardTokens,
          tok \in AmountTokens, pw \in PwTokens :
          (/\ cur.pc = "idle"
           /\ cur'.op = "transfer"
           /\ OverdrawnTransfer(u, c, tok, pw)
           /\ TransferLocal(u, c, tok, pw))
            => /\ cur' = Done("transfer", Reply("insufficient", NoCard, accounts[u]))
               /\ accounts' = accounts
               /\ transactions' = transactions
               /\ cards' = cards
               /\ passwords' = passwords]_vars

(* a transfer has been refused for lack of funds by an account that holds
   money, while the other account exists *)
C8_Witness ==
    /\ cur.pc = "done"
    /\ cur.op = "transfer"
    /\ cur.reply.msg = "insufficient"
    /\ cur.reply.balance = 1
    /\ Len(cards) = 2

(* C10 (refuted by the code): while an external transfer waits for the
   external bank, a command of any other user can be started.  The wait is
   time.sleep on the event-loop thread, so no handler can start before it
   returns. *)
C10_OthersServable ==
    cur.pc = "x_call"
      => \A v \in CardUsers(cards) \ {cur.user} : ENABLED Balance(v, "abcdef")

(* C6 (refuted by the code): no two users are assigned the same card
   number.  generate_card_number derives the card from the last six digits
   of the user id, so ids that agree on them get one card. *)
C6_CardsUnique ==
    \A i, j \in 1..Len(cards) : i # j => cards[i].card # cards[j].card

(* C7: at every point where add_transaction has done its work the history
   has at most 100 records, and they are the most recent ones in arrival
   order: in SpecHist every record after the opening one is a deposit of 1,
   so the balances the records show rise by one from each record to the
   next and the last record shows the current balance. *)
C7_HistoryCapped ==
    \A u \in DOMAIN transactions :
       LET list == transactions[u]
       IN /\ Len(list) <= HistoryCap + 1
          /\ cur.pc \in {"idle", "done", "save", "tx_save"}
               => /\ Len(list) <= HistoryCap
                  /\ list[Len(list)].balance = Get(accounts, u, 0)
                  /\ \A i \in 1..(Len(list) - 1) :
                        list[i + 1].balance = list[i].balance + list[i + 1].amount

(* the history is full and its oldest records, the opening one among them,
   have been evicted *)
C7_Witness ==
    /\ cur.pc = "idle"
    /\ U1 \in DOMAIN transactions
    /\ Len(transactions[U1]) = HistoryCap
    /\ transactions[U1][1].type = "deposit"
    /\ transactions[U1][1].balance = 3

(* the fields add_transaction records, but for the time *)
Shows(r, type, amount, target, balance) ==
    /\ r.type = type
    /\ r.amount = amount
    /\ r.target = target
    /\ r.balance = balance

(* C9 (refuted by the code, through C6): a successful intra-bank transfer of
   A from S to the card of T takes exactly A from S, gives exactly A to T,
   appends one transfer-out record with T's card to S and one transfer-in
   record with S's card to T, and changes no other balance or history.
   Stated for each step of the transfer's handler and every user T other
   than S whose card is the one given. *)
C9_TransferMovesAmount ==
    [][(cur.op = "transfer" /\ cur'.pc # cur.pc)
         => \A T \in CardUsers(cards) \ {cur.user} :
               CardOf(cards, T) = cur.tcard
                 => LET S == cur.user
                        A == cur.amount
                    IN /\ cur.pc = "t_debit"
                            => accounts' = Put(accounts, S, accounts[S] - A)
                       /\ cur.pc = "t_credit"
                            => accounts' = Put(accounts, T, accounts[T] + A)
                       /\ (cur.pc = "tx_append" /\ Len(cur.txq) = 2)
                            => /\ \A W \in DOMAIN transactions \ {S} :
                                     transactions'[W] = transactions[W]
                               /\ SubSeq(transactions'[S], 1, Len(transactions[S]))
                                     = transactions[S]
                               /\ Len(transactions'[S]) = Len(transactions[S]) + 1
                               /\ Shows(transactions'[S][Len(transactions'[S])],
                                        "transfer_out", A, CardOf(cards, T),
                                        accounts[S])
                       /\ (cur.pc = "tx_append" /\ Len(cur.txq) = 1)
                            => /\ \A W \in DOMAIN transactions \ {T} :
                                     transactions'[W] = transactions[W]
                               /\ SubSeq(transactions'[T], 1, Len(transactions[T]))
                                     = transactions[T]
                               /\ Len(transactions'[T]) = Len(transactions[T]) + 1
                               /\ Shows(transactions'[T][Len(transactions'[T])],
                                        "transfer_in", A, CardOf(cards, S),
                                        accounts[T])
                       /\ cur.pc \in {"t_lock", "tx_append", "tx_save", "save"}
                            => accounts' = accounts
                       /\ cur.pc \in {"t_lock", "t_debit", "t_credit", "tx_save", "save"}
                            => transactions' = transactions]_vars

(* the handler is inside a save_data call of its own *)
HandlerSaves == cur.pc \in {"tx_save", "save"} /\ cur' # cur

(* C12 (refuted by the code, through C11): a persist followed by a load
   in a fresh store gives back the ledger.  Whenever a save_data ends, be
   it a handler's or a round of the auto-save thread, load_data rebuilds
   from the file the accounts, cards, passwords and histories that are in
   memory, and every card number resolves to the same user.  It holds of
   every save_data a handler runs; a round of the auto-save thread that
   overlaps a handler's unlocked write ends with a file that mixes parts
   read before and after the write, or, when the write inserted a key,
   with a file cut short that loads as an empty ledger. *)
C12_RoundTrip ==
    [][(\/ HandlerSaves
        \/ (cur.pc = "idle" /\ saver.pc = "sleep" /\ file' # file /\ lock' = lock)
        \/ (saver.pc # "sleep" /\ saver'.pc = "sleep"))
         => /\ load_data(file') = Snapshot(accounts', cards', passwords',
                                           transactions')
            /\ \A c \in CardTokens :
                  FindTarget(load_data(file').cards, c) = FindTarget(cards', c)]_vars

(* C11 (refuted by the code): while a persist is serializing the ledger
   (the saver holds LOCK between opening the file and closing it) no
   handler changes accounts, cards, passwords or transactions, and nobody
   else writes the file.  Only the intra-bank debit and credit take LOCK:
   every other write to the ledger runs while the saver is serializing. *)
C11_PersistExcludesMutation ==
    [][saver.pc # "sleep"
         => /\ lock = "saver"
            /\ accounts' = accounts
            /\ cards' = cards
            /\ passwords' = passwords
            /\ transactions' = transactions
            /\ (file' # file => cur' = cur)]_vars

(* C13 (refuted by the code): a history query lists exactly
   min(count, number of stored records) records, the most recent ones,
   most recent first, where count is the given count brought into
   1..RecordLimit (RecordDefault when none is given), 0 and negative
   counts included.  The code only applies the upper limit: records[-0:]
   is the whole list and records[-count:] for a negative count drops the
   oldest -count records. *)
C13_RecordCountClamped ==
    [][\A args \in RecordArgs({"abcdef"}) :
          (/\ cur.pc = "idle"
           /\ cur'.op = "record"
           /\ RecordQuery(U1, args)
           /\ cur'.reply.msg = "records")
          => cur'.shown =
               LET given == IF Len(args) = 2 THEN ToInt(args[1])
                            ELSE RecordDefault
                   count == IF given < 1 THEN 1
                            ELSE IF given > RecordLimit THEN RecordLimit
                            ELSE given
               IN Reversed(LastN(transactions[U1],
                                 Min(count, Len(transactions[U1]))))]_vars

(* why an intra-bank transfer of `tok` from `u` to card `c` is invalid,
   "valid" when it is not *)
TransferRejection(u, c, tok) ==
    IF ~IsInt(tok) THEN "bad_amount"
    ELSE IF ToInt(tok) <= 0 THEN "amount_not_positive"
    ELSE IF ToInt(tok) > TransferLimit THEN "over_limit"
    ELSE IF \A i \in 1..Len(cards) : cards[i].card # c THEN "unknown_card"
    ELSE IF FindTarget(cards, c) = u THEN "self_transfer"
    ELSE "valid"

(* C14: an intra-bank transfer with an invalid amount (not a number, zero,
   negative, above TransferLimit) or an invalid target (a card of no
   account, the sender's own card), sent with the right password, is
   answered with that rejection in the step that receives it, and that
   step changes no balance, history, card, password, nor the file. *)
C14_RejectedTransferChangesNothing ==
    [][\A u \in CardUsers(cards), c \in CardTokens, tok \in AmountTokens :
          (/\ cur.pc = "idle"
           /\ cur'.op = "transfer"
           /\ TransferRejection(u, c, tok) # "valid"
           /\ TransferLocal(u, c, tok, passwords[u]))
          => /\ cur'.pc = "done"
             /\ cur'.reply.msg = TransferRejection(u, c, tok)
             /\ accounts' = accounts
             /\ cards' = cards
             /\ passwords' = passwords
             /\ transactions' = transactions
             /\ file' = file
             /\ lock' = lock]_vars

(* a transfer to the sender's own card has been rejected while the sender
   holds money and a second account exists *)
C14_Witness ==
    /\ cur.pc = "done"
    /\ cur.op = "transfer"
    /\ cur.reply.msg = "self_transfer"
    /\ Len(cards) = 2
    /\ \E u \in DOMAIN accounts : accounts[u] = 1

(* a save_data of the running handler that did not write the ledger *)
FailedSave ==
    /\ HandlerSaves
    /\ file' # [state |-> "complete",
                data |-> Snapshot(accounts, cards, passwords, transactions)]

(* C15: a failing persist is swallowed.  The step in which a handler's
   save_data fails changes nothing in memory, leaves LOCK free and takes
   the handler where a successful save would: to its next add_transaction
   or to its success result, which reports the balance held in memory.  A
   failing persist of the auto-save thread releases LOCK too.  LOCK is
   never left held: only a transfer between its debit and credit and a
   running auto-save hold it. *)
C15_FailedPersistSwallowed ==
    [][/\ FailedSave
          => /\ accounts' = accounts
             /\ cards' = cards
             /\ passwords' = passwords
             /\ transactions' = transactions
             /\ lock' = "free"
             /\ cur.pc = "save"
                  => /\ cur' = Done(cur.op, SuccessReply(cur))
                     /\ cur.op \in {"deposit", "withdraw", "transfer"}
                          => /\ cur'.reply.balance = accounts'[cur.user]
                             /\ LastRecord(cur.user).balance = accounts'[cur.user]
             /\ cur.pc = "tx_save"
                  => /\ cur'.pc = IF Len(cur.txq) > 1 THEN "tx_append" ELSE "save"
                     /\ cur'.txq = Tail(cur.txq)
       /\ (saver.pc # "sleep" /\ saver'.pc = "sleep")
          => lock' = "free" /\ accounts' = accounts /\ transactions' = transactions
       /\ lock' = "loop" => cur'.pc \in {"t_debit", "t_credit"}
       /\ lock' = "saver" <=> saver'.pc # "sleep"]_vars

(* a transfer has answered with success and both balances have moved,
   while the file on disk is absent or cut short: every persist since the
   last complete one has failed *)
C15_Witness ==
    /\ cur.pc = "done"
    /\ cur.reply.msg = "transfer_ok"
    /\ file.state # "complete"
    /\ saver.pc = "sleep"
    /\ \E u \in DOMAIN accounts : accounts[u] = 1 /\ LastRecord(u).type = "transfer_in"

(* what a history says the balance is: deposits and incoming transfers
   less withdrawals and outgoing transfers *)
RECURSIVE NetOf(_)
NetOf(list) ==
    IF list = <<>> THEN 0
    ELSE LET r == Head(list)
         IN (CASE r.type \in {"deposit", "transfer_in"} -> r.amount
               [] r.type \in {"kaihu", "changepwd"} -> 0
               [] OTHER -> 0 - r.amount)
            + NetOf(Tail(list))

(* C16 (refuted by the code): the read-modify-write of a balance is
   guarded by LOCK.  Every step that changes the balance of an account is
   taken by a handler that holds LOCK, and the balance a transfer will
   write back is read while the handler holds LOCK.  The code reads
   current_balance at line 320, before `with LOCK` at line 326, and the
   deposit (line 231), withdraw (lines 265-271) and external-transfer
   (lines 372 and 387) branches write a balance without taking LOCK. *)
C16_BalanceGuardedByLock ==
    [][/\ \A u \in DOMAIN accounts :
            accounts'[u] # accounts[u] => lock = "loop"
       /\ (cur.pc = "idle" /\ cur'.pc = "t_lock") => lock = "loop"]_vars

(* how many records of the given type the histories of t hold *)
TypeCount(t, type) ==
    SumOver([u \in DOMAIN t |-> CountType(t[u], type)], DOMAIN t)

(* C17 (refuted by the code): a file written while or after a transfer
   holds none of the transfer's effects or all of them: as many
   transfer-in records as transfer-out records, and every balance the net
   of the history saved with it.  The code persists three times: the
   save_data that ends the first add_transaction writes both new balances
   and the transfer-out record without the transfer-in record. *)
C17_TransferPersistedWhole ==
    file.state = "complete"
      => /\ TypeCount(file.data.transactions, "transfer_out")
              = TypeCount(file.data.transactions, "transfer_in")
         /\ \A u \in DOMAIN file.data.accounts :
               file.data.accounts[u]
                  = NetOf(Get(file.data.transactions, u, <<>>))

(* the handler that has just answered changed nothing *)
AnsweredUnchanged ==
    /\ cur'.pc = "done"
    /\ accounts' = accounts
    /\ cards' = cards
    /\ passwords' = passwords
    /\ transactions' = transactions
    /\ file' = file

BalanceOps == {"deposit", "withdraw", "transfer", "external"}

(* C19: a command sent with a password other than the stored one changes
   nothing.  For every account holder u and every password pw that is not
   u's stored password, the balance, deposit, withdraw, intra-bank
   transfer, external transfer and history commands and changepwd (pw as
   the old password) are answered in the step that receives them, with
   the wrong-password message when their numbers parse, and leave balances,
   cards, passwords, histories and the file as they were.  An existing
   balance changes only in a step of a deposit, withdraw or transfer
   handler. *)
C19_WrongPasswordChangesNothing ==
    [][/\ (cur.pc = "idle" /\ cur' # cur)
          => \A u \in CardUsers(cards) :
             \A pw \in PwTokens \ {passwords[u]} :
                /\ (cur'.op = "balance" /\ Balance(u, pw))
                     => AnsweredUnchanged /\ cur'.reply.msg = "wrong_password"
                /\ \A tok \in AmountTokens :
                     /\ (cur'.op = "deposit" /\ Deposit(u, tok, pw))
                          => /\ AnsweredUnchanged
                             /\ IsInt(tok) => cur'.reply.msg = "wrong_password"
                     /\ (cur'.op = "withdraw" /\ Withdraw(u, tok, pw))
                          => /\ AnsweredUnchanged
                             /\ IsInt(tok) => cur'.reply.msg = "wrong_password"
                     /\ \A c \in CardTokens :
                          (cur'.op = "transfer" /\ TransferLocal(u, c, tok, pw))
                          => /\ AnsweredUnchanged
                             /\ IsInt(tok) => cur'.reply.msg = "wrong_password"
                     /\ \A b \in BankNames, a \in ExtAccounts :
                          (cur'.op = "external" /\ TransferExternal(u, b, a, tok, pw))
                          => /\ AnsweredUnchanged
                             /\ IsInt(tok) => cur'.reply.msg = "wrong_password"
                /\ \A args \in {<<pw>>, <<"1", pw>>} :
                     (cur'.op = "record" /\ RecordQuery(u, args))
                     => AnsweredUnchanged /\ cur'.reply.msg = "wrong_password"
                /\ \A new \in NewPwTokens :
                     (cur'.op = "changepwd" /\ ChangePwd(u, pw, new))
                     => AnsweredUnchanged /\ cur'.reply.msg = "wrong_password"
       /\ \A v \in DOMAIN accounts :
             accounts'[v] # accounts[v]
               => cur.op \in BalanceOps \/ cur'.op \in BalanceOps]_vars

(* a withdrawal with a wrong password has been refused while the account
   holds money *)
C19_Witness ==
    /\ cur.pc = "done"
    /\ cur.op = "withdraw"
    /\ cur.reply.msg = "wrong_password"
    /\ \E u \in DOMAIN accounts : accounts[u] = 1 /\ passwords[u] = "abcdef"

(* C20: no deadlock.  A handler never asks for LOCK while it holds it:
   when it stands before `with LOCK` of the transfer or before a save_data
   it does not hold LOCK.  Under fair scheduling every handler that has
   started returns, every persist the auto-save thread has started ends,
   and LOCK, once taken, is released. *)
C20_NoDeadlock ==
    /\ [](cur.pc \in {"t_lock", "tx_save", "save"} => lock # "loop")
    /\ (cur.pc # "idle") ~> (cur.pc = "idle")
    /\ (saver.pc # "sleep") ~> (saver.pc = "sleep")
    /\ (lock # "free") ~> (lock = "free")

(* a transfer handler, past its critical section, waits before the
   save_data of add_transaction for the LOCK the auto-save thread holds *)
C20_Witness ==
    /\ cur.pc = "tx_save"
    /\ cur.op = "transfer"
    /\ lock = "saver"
    /\ saver.pc # "sleep"

====
